---------------------------- MODULE Spec2Model ----------------------------
(***************************************************************************)
(* State-machine model of the WebRTC signaling relay (signal_server.js)    *)
(* and of the browser-side signaling client (multiplayer/signaling.js).    *)
(*                                                                         *)
(* Relay: one handler closure per accepted WebSocket; the shared state is  *)
(* the room registry `rooms` and the credential cache.  Every handler runs *)
(* to completion (Node's single-threaded event loop), so each handler is   *)
(* one atomic action.                                                      *)
(***************************************************************************)
EXTENDS Integers, Sequences, FiniteSets, TLC

(***************************************************************************)
(* Program constants (signal_server.js, "Limits").                         *)
(***************************************************************************)
MAX_ROOM_SIZE == 8
MAX_ROOM_ID_LEN == 64
RATE_LIMIT_WINDOW == 1000
RATE_LIMIT_MAX_MSG == 30

(***************************************************************************)
(* Bounds of the model.                                                    *)
(***************************************************************************)
\* connections that act freely
NumConns == 3
\* successful joins (uuids issued) to freely acting connections
MaxJoins == 3
\* messages a flooding connection sends beyond the cap in one window
MaxExcess == 2
\* requests to the credential provider in flight at once
MaxInFlight == 2

\* connections that fill a room up to one below capacity in SpecFull
Background == 1 .. (MAX_ROOM_SIZE - 1)
Conns == 1 .. (MAX_ROOM_SIZE - 1 + NumConns)

\* WebSocket readyState values (ws: CONNECTING 0, OPEN 1, CLOSING 2, CLOSED 3)
OPEN == 1
CLOSING == 2
CLOSED == 3

\* `currentRoom = null`; '' is falsy as well and is never stored
Null == << >>
\* an unset ws._peerId, and a peerId key that is absent from a JSON object
Undefined == 0
\* a string-valued JSON field that is absent
Absent == "<absent>"

Min(a, b) == IF a < b THEN a ELSE b

(***************************************************************************)
(* Inbound frames.  A frame either fails JSON.parse or parses to an object *)
(* with the fields the relay reads or forwards.  roomId is a JS value:     *)
(* a string (a sequence of characters) or something that is not a string.  *)
(***************************************************************************)
Str(chars) == [str |-> TRUE, chars |-> chars]
NotAString == [str |-> FALSE, chars |-> << >>]

InMsg(type, roomId, peerId, sdp, candidate) ==
    [type |-> type, roomId |-> roomId, peerId |-> peerId,
     sdp |-> sdp, candidate |-> candidate]

Frame(msg) == [malformed |-> FALSE, json |-> msg]
Garbage == [malformed |-> TRUE, json |-> InMsg(Absent, NotAString, Undefined, Absent, Absent)]

RawRoomIds ==
    { Str(<<"a">>), Str(<<"b">>), Str(<<"a", "!">>), Str(<<"!", " ">>), NotAString }

JoinA == Frame(InMsg("JOIN_ROOM", Str(<<"a">>), Undefined, Absent, Absent))
JoinB == Frame(InMsg("JOIN_ROOM", Str(<<"b">>), Undefined, Absent, Absent))
\* an OFFER that claims peer id 1 and carries a field of its own
Offer == Frame(InMsg("OFFER", Str(<<"b">>), 1, "sdp-o", Absent))

JoinFrames == { Frame(InMsg("JOIN_ROOM", r, Undefined, Absent, Absent)) : r \in RawRoomIds }

\* peerId claims a sender may put in its payload: none, or somebody's id
RelayFrames ==
    { Frame(InMsg("OFFER", NotAString, Undefined, "sdp-o", Absent)),
      Offer,
      Frame(InMsg("ANSWER", NotAString, 2, "sdp-a", Absent)),
      Frame(InMsg("ICE_CANDIDATE", NotAString, Undefined, Absent, "cand-1")) }

OtherFrames == { Garbage, Frame(InMsg("PING", NotAString, Undefined, Absent, Absent)) }

Frames == JoinFrames \cup RelayFrames \cup OtherFrames

\* credential lists the provider may return
IceLists == { <<"turn:1">>, <<"turn:2">> }

VARIABLES
    sockets,            \* accepted connections (a handler closure exists)
    readyState,         \* ws.readyState
    currentRoom,        \* the closure variable `currentRoom`
    wsPeerId,           \* ws._peerId
    rateElapsed,        \* Date.now() - ws._rateBucketStart, saturated
    rateCount,          \* ws._rateBucketCount
    rooms,              \* Map roomId -> Set of sockets, in insertion order
    nextUuid,           \* randomUUID(): the next fresh identifier
    cachedIceServers,   \* _cachedIceServers
    fetches,            \* requests to the credential provider in flight, and
                        \* whether setInterval(fetchIceServers, ...) has run
    sent,               \* what the last handler sent, in order
    lastEvent,          \* the event the last handler ran for
    winArrived,         \* frames received in the current window
    winProcessed        \* frames that passed the rate gate in that window

relayVars == << sockets, readyState, currentRoom, wsPeerId, rateElapsed,
                rateCount, rooms, nextUuid, cachedIceServers, fetches,
                sent, lastEvent, winArrived, winProcessed >>

(***************************************************************************)
(* Client (multiplayer/signaling.js), one copy of the module state per     *)
(* browser page.  RTCPeerConnection, RTCDataChannel and WebSocket objects  *)
(* are numbered per page in the order `new` creates them.                  *)
(***************************************************************************)
VARIABLES
    role,               \* opts.role of the listeners of the current socket
    signalingSocket,    \* _signalingSocket
    webSockets,         \* readyState of every WebSocket the page created
    myPeerId,           \* _myPeerId
    resolvedIceServers, \* _resolvedIceServers
    peerConnections,    \* Map peerId -> RTCPeerConnection
    dataChannels,       \* Map peerId -> RTCDataChannel
    pcs,                \* the RTCPeerConnection objects
    channels,           \* the RTCDataChannel objects
    outbox,             \* what the last step sent on the signaling socket
    uncaught,           \* the last step ended in an uncaught exception
    clientEvent         \* the call, event or callback the last step ran for

clientVars == << role, signalingSocket, webSockets, myPeerId, resolvedIceServers,
                 peerConnections, dataChannels, pcs, channels, outbox, uncaught,
                 clientEvent >>

(***************************************************************************)
(* The network between the pages and the relay: which relay connection     *)
(* serves a page's signaling socket, and the frames in flight each way.    *)
(***************************************************************************)
VARIABLES
    conn,               \* page -> relay connection of its signaling socket
    up,                 \* page -> frames sent and not yet handled by the relay
    down                \* page -> frames the relay sent, not yet handled

netVars == << conn, up, down >>

vars == << relayVars, clientVars, netVars >>

(***************************************************************************)
(* Helpers                                                                 *)
(***************************************************************************)
Lower == {"a","b","c","d","e","f","g","h","i","j","k","l","m",
          "n","o","p","q","r","s","t","u","v","w","x","y","z"}
Upper == {"A","B","C","D","E","F","G","H","I","J","K","L","M",
          "N","O","P","Q","R","S","T","U","V","W","X","Y","Z"}
Digit == {"0","1","2","3","4","5","6","7","8","9"}
SafeChars == Lower \cup Upper \cup Digit \cup {"_", "-"}

IsSafe(ch) == ch \in SafeChars

\* sanitiseRoomId(raw): '' unless a string; strip unsafe chars; slice
sanitiseRoomId(raw) ==
    IF ~raw.str THEN << >>
    ELSE LET kept == SelectSeq(raw.chars, IsSafe)
         IN  SubSeq(kept, 1, Min(Len(kept), MAX_ROOM_ID_LEN))

\* Set operations on an insertion-ordered set
SetHas(s, x) == \E i \in 1 .. Len(s) : s[i] = x
SetAdd(s, x) == IF SetHas(s, x) THEN s ELSE Append(s, x)
SetDelete(s, x) == SelectSeq(s, LAMBDA y : y # x)
Members(s) == { s[i] : i \in 1 .. Len(s) }

\* Map operations on `rooms`
EmptyMap == [x \in {} |-> << >>]
MapHas(m, k) == k \in DOMAIN m
MapSet(m, k, v) == [x \in DOMAIN m \cup {k} |-> IF x = k THEN v ELSE m[x]]
MapDelete(m, k) == [x \in DOMAIN m \ {k} |-> m[x]]

Send(to, msg) == [to |-> to, msg |-> msg]

(***************************************************************************)
(* rateAllow(ws), with `elapsed` = now - ws._rateBucketStart               *)
(***************************************************************************)
\* slip: `<` for `<=` in the cap test
rateAllowOffByOne(elapsed, count) ==
    LET reset == elapsed > RATE_LIMIT_WINDOW
        count1 == (IF reset THEN 0 ELSE count) + 1
    IN  [elapsed |-> IF reset THEN 0 ELSE elapsed,
         count |-> count1,
         allow |-> count1 < RATE_LIMIT_MAX_MSG]

rateAllow(elapsed, count) ==
    LET reset == elapsed > RATE_LIMIT_WINDOW
        count1 == (IF reset THEN 0 ELSE count) + 1
    IN  [elapsed |-> IF reset THEN 0 ELSE elapsed,
         count |-> count1,
         allow |-> count1 <= RATE_LIMIT_MAX_MSG]

\* the clocks of the other connections after dt more milliseconds
Later(elapsed, dt) == Min(elapsed + dt, RATE_LIMIT_WINDOW + 1)

(***************************************************************************)
(* Init: the process has started, nothing is connected, no fetch finished. *)
(***************************************************************************)
Pages == {1, 2, 3}

\* DEFAULT_ICE
DEFAULT_ICE == << "stun:stun.l.google.com:19302", "stun:stun1.l.google.com:19302" >>

\* `_signalingSocket = null`
NoSocket == 0

ClientInit ==
    /\ role = [g \in Pages |-> "none"]
    /\ signalingSocket = [g \in Pages |-> NoSocket]
    /\ webSockets = [g \in Pages |-> << >>]
    /\ myPeerId = [g \in Pages |-> Undefined]
    /\ resolvedIceServers = [g \in Pages |-> DEFAULT_ICE]
    /\ peerConnections = [g \in Pages |-> EmptyMap]
    /\ dataChannels = [g \in Pages |-> EmptyMap]
    /\ pcs = [g \in Pages |-> << >>]
    /\ channels = [g \in Pages |-> << >>]
    /\ outbox = << >>
    /\ uncaught = FALSE
    /\ clientEvent = [kind |-> "load", page |-> 0]

NetInit ==
    /\ conn = [g \in Pages |-> 0]
    /\ up = [g \in Pages |-> << >>]
    /\ down = [g \in Pages |-> << >>]

\* no page is connected to the relay of the model
NoNet == UNCHANGED netVars

Init ==
    /\ ClientInit
    /\ NetInit
    /\ sockets = {}
    /\ readyState = [c \in Conns |-> 0]
    /\ currentRoom = [c \in Conns |-> Null]
    /\ wsPeerId = [c \in Conns |-> Undefined]
    /\ rateElapsed = [c \in Conns |-> 0]
    /\ rateCount = [c \in Conns |-> 0]
    /\ rooms = EmptyMap
    /\ nextUuid = 1
    /\ cachedIceServers = << >>
    /\ fetches = [inFlight |-> 1, interval |-> FALSE]
    /\ sent = << >>
    /\ lastEvent = [kind |-> "start", conn |-> 0]
    /\ winArrived = [c \in Conns |-> 0]
    /\ winProcessed = [c \in Conns |-> 0]

(***************************************************************************)
(* wss.on('connection'): a new socket object and its closure.  Sockets are *)
(* numbered in the order the server accepts them.                          *)
(***************************************************************************)
Accept(c) ==
    /\ c \notin sockets
    /\ c = Cardinality(sockets) + 1
    /\ sockets' = sockets \cup {c}
    /\ readyState' = [readyState EXCEPT ![c] = OPEN]
    /\ currentRoom' = [currentRoom EXCEPT ![c] = Null]
    /\ rateElapsed' = [rateElapsed EXCEPT ![c] = 0]
    /\ rateCount' = [rateCount EXCEPT ![c] = 0]
    /\ sent' = << >>
    /\ lastEvent' = [kind |-> "connection", conn |-> c]
    /\ UNCHANGED << wsPeerId, rooms, nextUuid, cachedIceServers, fetches,
                    winArrived, winProcessed >>
    /\ UNCHANGED clientVars

(***************************************************************************)
(* JOIN_ROOM branch of ws.on('message')                                    *)
(***************************************************************************)
\* slip: `>` for `>=` in the capacity test
AtCapacityOffByOne(m, roomId) == MapHas(m, roomId) /\ Len(m[roomId]) > MAX_ROOM_SIZE

\* existingRoom && existingRoom.size >= MAX_ROOM_SIZE
AtCapacity(m, roomId) == MapHas(m, roomId) /\ Len(m[roomId]) >= MAX_ROOM_SIZE

\* if (!rooms.has(currentRoom)) rooms.set(currentRoom, new Set());
\* rooms.get(currentRoom).add(ws);
RoomsAfterJoin(m, roomId, c) ==
    LET m1 == IF MapHas(m, roomId) THEN m ELSE MapSet(m, roomId, << >>)
    IN  MapSet(m1, roomId, SetAdd(m1[roomId], c))

\* ws._peerId = peerId
PeerIdAfterJoin(c, peerId) == [wsPeerId EXCEPT ![c] = peerId]

AssignedPeerId(peerId) ==
    [type |-> "ASSIGNED_PEER_ID", peerId |-> peerId, iceServers |-> cachedIceServers]

PeerJoined(peerId) == [type |-> "PEER_JOINED", peerId |-> peerId]

RoomFull == [type |-> "ROOM_FULL"]

\* slip: the loop lacks `peer.readyState === 1`
RecipientsAnyState(room, c) == SelectSeq(room, LAMBDA p : p # c)

\* peer !== ws && peer.readyState === 1, in the Set's iteration order
Recipients(room, c) == SelectSeq(room, LAMBDA p : p # c /\ readyState[p] = OPEN)

\* one send of `msg` per element of `targets`, in order
FanOut(targets, msg) == [i \in 1 .. Len(targets) |-> Send(targets[i], msg)]

\* slip: `currentRoom = roomId` moved above the capacity test
StateOnRoomFullMoved(c, roomId) ==
    << [currentRoom EXCEPT ![c] = roomId], rooms, wsPeerId, nextUuid >>

\* what the handler leaves of the closure and registry on ROOM_FULL
StateOnRoomFull(c, roomId) == << currentRoom, rooms, wsPeerId, nextUuid >>

\* what the handler sends on ROOM_FULL
RepliesOnRoomFull(c, roomId) == << Send(c, RoomFull) >>

JoinRoom(c, msg) ==
    LET roomId == sanitiseRoomId(msg.roomId)
    IN  IF roomId = << >>
        THEN /\ sent' = << >>
             /\ UNCHANGED << currentRoom, rooms, wsPeerId, nextUuid >>
        ELSE IF AtCapacity(rooms, roomId)
        THEN /\ sent' = RepliesOnRoomFull(c, roomId)
             /\ LET st == StateOnRoomFull(c, roomId)
                IN  /\ currentRoom' = st[1]
                    /\ rooms' = st[2]
                    /\ wsPeerId' = st[3]
                    /\ nextUuid' = st[4]
        ELSE LET peerId == nextUuid
                 rooms1 == RoomsAfterJoin(rooms, roomId, c)
             IN  /\ currentRoom' = [currentRoom EXCEPT ![c] = roomId]
                 /\ rooms' = rooms1
                 /\ nextUuid' = nextUuid + 1
                 /\ wsPeerId' = PeerIdAfterJoin(c, peerId)
                 /\ sent' = << Send(c, AssignedPeerId(peerId)) >>
                            \o FanOut(Recipients(rooms1[roomId], c), PeerJoined(peerId))

(***************************************************************************)
(* Relay branch of ws.on('message')                                        *)
(***************************************************************************)
RelayTypes == {"OFFER", "ANSWER", "ICE_CANDIDATE"}

\* slip: { peerId: ws._peerId, ...msg }, the sender's own claim wins
StampClaimWins(msg, c) ==
    [msg EXCEPT !.peerId = IF msg.peerId # Undefined THEN msg.peerId ELSE wsPeerId[c]]

\* JSON.stringify({ ...msg, peerId: ws._peerId })
Stamp(msg, c) == [msg EXCEPT !.peerId = wsPeerId[c]]

\* slip: the loop lacks `peer !== ws`
RelayTargetsEcho(c) ==
    IF MapHas(rooms, currentRoom[c])
    THEN SelectSeq(rooms[currentRoom[c]], LAMBDA p : readyState[p] = OPEN)
    ELSE << >>

\* the sockets the relay loop sends to
RelayTargets(c) ==
    IF MapHas(rooms, currentRoom[c])
    THEN Recipients(rooms[currentRoom[c]], c)
    ELSE << >>

Relay(c, msg) ==
    /\ sent' = IF currentRoom[c] # Null /\ msg.type \in RelayTypes
               THEN FanOut(RelayTargets(c), Stamp(msg, c))
               ELSE << >>
    /\ UNCHANGED << currentRoom, rooms, wsPeerId, nextUuid >>

(***************************************************************************)
(* ws.on('message'): rate gate, parse, dispatch.  dt is the time that has  *)
(* passed since the previous event.                                        *)
(***************************************************************************)
OnMessage(c, dt, raw) ==
    LET gate == rateAllow(Later(rateElapsed[c], dt), rateCount[c])
        fresh == rateElapsed[c] + dt > RATE_LIMIT_WINDOW
    IN  /\ c \in sockets /\ readyState[c] = OPEN
        /\ rateElapsed' = [k \in Conns |->
                              IF k = c THEN gate.elapsed
                              ELSE IF k \in sockets THEN Later(rateElapsed[k], dt)
                              ELSE rateElapsed[k]]
        /\ rateCount' = [rateCount EXCEPT ![c] = gate.count]
        /\ lastEvent' = [kind |-> "message", conn |-> c, raw |-> raw,
                          allowed |-> gate.allow]
        /\ winArrived' = [winArrived EXCEPT ![c] = (IF fresh THEN 0 ELSE @) + 1]
        /\ winProcessed' = [winProcessed EXCEPT ![c] =
                               (IF fresh THEN 0 ELSE @) + (IF gate.allow THEN 1 ELSE 0)]
        /\ UNCHANGED << sockets, readyState, cachedIceServers, fetches >>
        /\ UNCHANGED clientVars
        /\ IF ~gate.allow \/ raw.malformed
           THEN /\ sent' = << >>
                /\ UNCHANGED << currentRoom, rooms, wsPeerId, nextUuid >>
           ELSE IF raw.json.type = "JOIN_ROOM"
           THEN JoinRoom(c, raw.json)
           ELSE Relay(c, raw.json)

(***************************************************************************)
(* The transport stops being writable before its 'close' event is handled. *)
(***************************************************************************)
BeginClose(c) ==
    /\ c \in sockets /\ readyState[c] = OPEN
    /\ readyState' = [readyState EXCEPT ![c] = CLOSING]
    /\ sent' = << >>
    /\ lastEvent' = [kind |-> "closing", conn |-> c]
    /\ UNCHANGED << sockets, currentRoom, wsPeerId, rateElapsed, rateCount, rooms,
                    nextUuid, cachedIceServers, fetches, winArrived, winProcessed >>
    /\ UNCHANGED clientVars

(***************************************************************************)
(* ws.on('close')                                                          *)
(***************************************************************************)
\* slip: the close handler lacks the deletion of the emptied room
RoomsAfterCloseKeepEmpty(m, room, c) ==
    IF room # Null /\ MapHas(m, room)
    THEN MapSet(m, room, SetDelete(m[room], c))
    ELSE m

RoomsAfterClose(m, room, c) ==
    IF room # Null /\ MapHas(m, room)
    THEN LET m1 == MapSet(m, room, SetDelete(m[room], c))
         IN  IF Len(m1[room]) = 0 THEN MapDelete(m1, room) ELSE m1
    ELSE m

OnClose(c) ==
    /\ c \in sockets /\ readyState[c] \in {OPEN, CLOSING}
    /\ readyState' = [readyState EXCEPT ![c] = CLOSED]
    /\ rooms' = RoomsAfterClose(rooms, currentRoom[c], c)
    /\ sent' = << >>
    /\ lastEvent' = [kind |-> "close", conn |-> c]
    /\ UNCHANGED << sockets, currentRoom, wsPeerId, rateElapsed, rateCount,
                    nextUuid, cachedIceServers, fetches, winArrived, winProcessed >>
    /\ UNCHANGED clientVars

(***************************************************************************)
(* fetchIceServers.  The request is issued when the module loads and then  *)
(* by a timer that is set when the first request has resolved; the cache   *)
(* is written in the 'end' callback of the response.                       *)
(***************************************************************************)
Response(error, parses, isArray, servers) ==
    [error |-> error, parses |-> parses, isArray |-> isArray, servers |-> servers]

Responses ==
    { Response(TRUE, FALSE, FALSE, << >>),            \* network error
      Response(FALSE, FALSE, FALSE, << >>),           \* JSON.parse throws
      Response(FALSE, TRUE, FALSE, << >>),            \* not an array
      Response(FALSE, TRUE, FALSE, <<"turn:1">>),     \* not an array, has a length
      Response(FALSE, TRUE, TRUE, << >>) }            \* empty array
    \cup { Response(FALSE, TRUE, TRUE, l) : l \in IceLists }

\* slip: the cache is assigned whenever the payload is an array
CacheAfterFetchAnyArray(cache, r) ==
    IF ~r.error /\ r.parses /\ r.isArray
    THEN r.servers
    ELSE cache

CacheAfterFetch(cache, r) ==
    IF ~r.error /\ r.parses /\ r.isArray /\ Len(r.servers) > 0
    THEN r.servers
    ELSE cache

\* the timer fires: https.get is called, nothing else happens yet
FetchStart ==
    /\ fetches.interval
    /\ fetches' = [fetches EXCEPT !.inFlight = @ + 1]
    /\ sent' = << >>
    /\ lastEvent' = [kind |-> "request", conn |-> 0]
    /\ UNCHANGED << sockets, readyState, currentRoom, wsPeerId, rateElapsed,
                    rateCount, rooms, nextUuid, cachedIceServers,
                    winArrived, winProcessed >>
    /\ UNCHANGED clientVars

\* a request ends (res 'end', or 'error'), then resolve() and its .then
FetchIceServers(r) ==
    /\ fetches.inFlight > 0
    /\ cachedIceServers' = CacheAfterFetch(cachedIceServers, r)
    /\ fetches' = [inFlight |-> fetches.inFlight - 1, interval |-> TRUE]
    /\ sent' = << >>
    /\ lastEvent' = [kind |-> "fetch", conn |-> 0, response |-> r]
    /\ UNCHANGED << sockets, readyState, currentRoom, wsPeerId, rateElapsed,
                    rateCount, rooms, nextUuid, winArrived, winProcessed >>
    /\ UNCHANGED clientVars

(***************************************************************************)
(* Spec: NumConns connections join, relay and close in any order; frames   *)
(* are spaced by more than one rate window.                                *)
(***************************************************************************)
Spaced == { RATE_LIMIT_WINDOW + 1 }

JoinsLeft(cap) == nextUuid <= cap

Next ==
    \/ \E c \in 1 .. NumConns : Accept(c) /\ NoNet
    \/ \E c \in 1 .. NumConns, dt \in Spaced, raw \in Frames :
          /\ raw \in JoinFrames => JoinsLeft(MaxJoins)
          /\ OnMessage(c, dt, raw)
          /\ NoNet
    \/ \E c \in 1 .. NumConns : BeginClose(c) /\ NoNet
    \/ \E c \in 1 .. NumConns : OnClose(c) /\ NoNet

Spec == Init /\ [][Next]_vars

(***************************************************************************)
(* SpecFull: MAX_ROOM_SIZE - 1 connections join room "a" one after the     *)
(* other and stay; then NumConns more connections act freely.              *)
(***************************************************************************)
Warm == nextUuid > MAX_ROOM_SIZE - 1

WarmUp ==
    \E c \in Background :
        /\ nextUuid = c
        /\ \/ Accept(c)
           \/ \E dt \in Spaced : OnMessage(c, dt, JoinA)
        /\ NoNet

NextFull ==
    \/ WarmUp
    \/ Warm /\ NoNet /\ \E c \in Conns \ Background : Accept(c)
    \/ Warm /\ NoNet /\ \E c \in Conns \ Background, dt \in Spaced, raw \in Frames :
          /\ raw \in JoinFrames => JoinsLeft(MAX_ROOM_SIZE - 1 + MaxJoins)
          /\ OnMessage(c, dt, raw)
    \/ Warm /\ NoNet /\ \E c \in Conns \ Background : BeginClose(c)
    \/ Warm /\ NoNet /\ \E c \in Conns \ Background : OnClose(c)

SpecFull == Init /\ [][NextFull]_vars

(***************************************************************************)
(* SpecRate: connection 1 sends frames at any pace, up to MaxExcess frames *)
(* beyond the cap in one window; connection 2 joins room "a" and listens.  *)
(***************************************************************************)
Paces == { 0, RATE_LIMIT_WINDOW, RATE_LIMIT_WINDOW + 1 }

Flooder == 1
Listener == 2

FloodFrames == { JoinA, JoinB, Offer, Garbage }

NextRate ==
    \/ \E c \in {Flooder, Listener} : Accept(c) /\ NoNet
    \/ \E dt \in Paces, raw \in FloodFrames :
          /\ raw \in JoinFrames => JoinsLeft(MaxJoins)
          /\ \/ rateElapsed[Flooder] + dt > RATE_LIMIT_WINDOW
             \/ rateCount[Flooder] < RATE_LIMIT_MAX_MSG + MaxExcess
          /\ OnMessage(Flooder, dt, raw)
          /\ NoNet
    \/ \E dt \in Spaced :
          /\ currentRoom[Listener] = Null
          /\ OnMessage(Listener, dt, JoinA)
          /\ NoNet
    \/ OnClose(Flooder) /\ NoNet
    \/ BeginClose(Listener) /\ NoNet
    \/ OnClose(Listener) /\ NoNet

SpecRate == Init /\ [][NextRate]_vars

(***************************************************************************)
(* SpecIce: the refresh loop runs, its requests end in any of Responses,   *)
(* and three connections join rooms and close meanwhile.                   *)
(***************************************************************************)
Joiners == {1, 2, 3}

NextIce ==
    \/ \E c \in Joiners : Accept(c) /\ NoNet
    \/ \E c \in Joiners, dt \in Spaced, raw \in {JoinA, JoinB} :
          /\ JoinsLeft(MaxJoins)
          /\ OnMessage(c, dt, raw)
          /\ NoNet
    \/ \E c \in Joiners : BeginClose(c) /\ NoNet
    \/ \E c \in Joiners : OnClose(c) /\ NoNet
    \/ fetches.inFlight < MaxInFlight /\ FetchStart /\ NoNet
    \/ \E r \in Responses : FetchIceServers(r) /\ NoNet

SpecIce == Init /\ [][NextIce]_vars

(***************************************************************************)
(* Properties of the relay                                                 *)
(***************************************************************************)
\* the connection the last handler ran for
LastConn == lastEvent.conn

\* the last handler ran for a frame that passed the rate gate and parsed
Dispatched(e) == e.kind = "message" /\ e.allowed /\ ~e.raw.malformed

Tos(s) == { s[i].to : i \in 1 .. Len(s) }

Types(s) == { s[i].msg.type : i \in 1 .. Len(s) }

RoomsOf(c) == { r \in DOMAIN rooms : c \in Members(rooms[r]) }

C1_Capacity == \A r \in DOMAIN rooms : Len(rooms[r]) <= MAX_ROOM_SIZE

C1_FullJoin ==
    LET e == lastEvent'
    IN  Dispatched(e) /\ e.raw.json.type = "JOIN_ROOM" =>
          LET r == sanitiseRoomId(e.raw.json.roomId)
          IN  r \in DOMAIN rooms /\ Cardinality(Members(rooms[r])) >= MAX_ROOM_SIZE =>
                /\ sent' = << Send(e.conn, RoomFull) >>
                /\ r \in DOMAIN rooms'
                /\ rooms'[r] = rooms[r]

\* C1: no room's member set ever holds more than MAX_ROOM_SIZE connections,
\* and a JOIN_ROOM for a room that already holds MAX_ROOM_SIZE connections is
\* answered with ROOM_FULL and leaves the room's member set as it was.
C1_RoomNeverOverfull == []C1_Capacity /\ [][C1_FullJoin]_vars

\* a connection outside a full room has just been refused
C1_Witness ==
    /\ lastEvent.kind = "message"
    /\ sent = << Send(LastConn, RoomFull) >>
    /\ \E r \in DOMAIN rooms :
          Len(rooms[r]) = MAX_ROOM_SIZE /\ ~SetHas(rooms[r], LastConn)

C2_NoEmptyRoom == \A r \in DOMAIN rooms : Members(rooms[r]) # {}

C2_CreateDelete ==
    LET e == lastEvent'
    IN  /\ e.kind = "message" /\ "ASSIGNED_PEER_ID" \in Types(sent') =>
              LET r == sanitiseRoomId(e.raw.json.roomId)
              IN  r \in DOMAIN rooms' /\ e.conn \in Members(rooms'[r])
        /\ e.kind = "close" /\ currentRoom[e.conn] \in DOMAIN rooms =>
              IF Members(rooms[currentRoom[e.conn]]) \subseteq {e.conn}
              THEN currentRoom[e.conn] \notin DOMAIN rooms'
              ELSE currentRoom[e.conn] \in DOMAIN rooms'

\* C2: a room identifier is a key of the registry exactly when its member
\* set is non-empty: no key maps to an empty set, a successful join leaves the
\* room in the registry with the joiner in it, and the close of a room's last
\* member removes the key (and the close of any other member keeps it).
C2_RegistryIffMembers == []C2_NoEmptyRoom /\ [][C2_CreateDelete]_vars

\* the last member of one room has closed while another room lives on
C2_Witness ==
    /\ lastEvent.kind = "close"
    /\ currentRoom[LastConn] # Null
    /\ currentRoom[LastConn] \notin DOMAIN rooms
    /\ DOMAIN rooms # {}

\* C3: after a connection's transport has closed, the connection is a member
\* of no room of the registry.
C3_ClosedIsNowhere ==
    \A c \in sockets : readyState[c] = CLOSED => RoomsOf(c) = {}

\* C4: each connection is in the member set of at most one room.
C4_AtMostOneRoom == \A c \in sockets : Cardinality(RoomsOf(c)) <= 1

\* C5: every relayed OFFER, ANSWER or ICE_CANDIDATE carries the sender's
\* server-assigned identifier in peerId, whatever the sender put there, and
\* every other field as the sender sent it.
C5_Stamped ==
    \A i \in 1 .. Len(sent) :
        sent[i].msg.type \in RelayTypes =>
            LET m == sent[i].msg
                o == lastEvent.raw.json
            IN  /\ lastEvent.kind = "message"
                /\ wsPeerId[LastConn] # Undefined
                /\ m.peerId = wsPeerId[LastConn]
                /\ DOMAIN m = DOMAIN o
                /\ \A f \in DOMAIN o \ {"peerId"} : m[f] = o[f]

\* a relayed frame whose sender claimed somebody else's identifier
C5_Witness ==
    /\ lastEvent.kind = "message"
    /\ Types(sent) \cap RelayTypes # {}
    /\ lastEvent.raw.json.peerId \notin {Undefined, wsPeerId[LastConn]}

\* the writable other members of the sender's current room
C6_Audience(c) ==
    IF currentRoom[c] \in DOMAIN rooms
    THEN { p \in Members(rooms[currentRoom[c]]) : p # c /\ readyState[p] = OPEN }
    ELSE {}

\* C6: a relayed frame goes exactly once to every other writable member of
\* the sender's room, never to the sender, and to nobody when the sender has
\* not joined a room.
C6_Delivery ==
    Dispatched(lastEvent) /\ lastEvent.raw.json.type \in RelayTypes =>
        /\ Tos(sent) = C6_Audience(LastConn)
        /\ Len(sent) = Cardinality(C6_Audience(LastConn))
        /\ LastConn \notin Tos(sent)
        /\ Types(sent) \subseteq {lastEvent.raw.json.type}
        /\ currentRoom[LastConn] = Null => sent = << >>

\* a relay in a room of three where one member is no longer writable
C6_Witness ==
    /\ Dispatched(lastEvent) /\ lastEvent.raw.json.type \in RelayTypes
    /\ Len(sent) = 1
    /\ currentRoom[LastConn] \in DOMAIN rooms
    /\ \E p \in Members(rooms[currentRoom[LastConn]]) : readyState[p] = CLOSING

C7_Counted == \A c \in Conns : winProcessed[c] = Min(winArrived[c], RATE_LIMIT_MAX_MSG)

C7_DropOrDispatch ==
    LET e == lastEvent'
    IN  e.kind = "message" =>
          IF winArrived'[e.conn] > RATE_LIMIT_MAX_MSG
          THEN /\ sent' = << >>
               /\ rooms' = rooms
               /\ currentRoom' = currentRoom
               /\ wsPeerId' = wsPeerId
               /\ nextUuid' = nextUuid
               /\ readyState' = readyState
          ELSE e.raw \in {JoinA, JoinB} =>
                  /\ Len(sent') >= 1
                  /\ sent'[1].to = e.conn
                  /\ sent'[1].msg.type = "ASSIGNED_PEER_ID"

\* C7: in each rate window of a connection (it starts when the connection is
\* accepted, or with the first frame that arrives more than RATE_LIMIT_WINDOW
\* ms after the window's start) the first RATE_LIMIT_MAX_MSG frames are
\* processed and every further one is dropped with no effect on rooms,
\* closures, identifiers or sockets and with nothing sent.
C7_RateWindow == []C7_Counted /\ [][C7_DropOrDispatch]_vars

\* a valid JOIN_ROOM has just been dropped as the 31st or later frame
C7_Witness ==
    /\ lastEvent.kind = "message"
    /\ lastEvent.raw = JoinA
    /\ winArrived[LastConn] > RATE_LIMIT_MAX_MSG
    /\ winProcessed[LastConn] = RATE_LIMIT_MAX_MSG
    /\ currentRoom[LastConn] = Null

C8_Rejected ==
    "ROOM_FULL" \in Types(sent') =>
        /\ lastEvent'.kind = "message"
        /\ lastEvent'.raw.json.type = "JOIN_ROOM"
        /\ sent' = << Send(lastEvent'.conn, RoomFull) >>
        /\ rooms' = rooms
        /\ currentRoom' = currentRoom
        /\ wsPeerId' = wsPeerId

\* C8: a JOIN_ROOM rejected with ROOM_FULL changes neither the registry nor
\* any connection's current room or peer identifier, and the only thing sent
\* is one ROOM_FULL to the joining connection.
C8_RoomFullFrame == [][C8_Rejected]_vars

\* a member of one room has just been refused by another, full room
C8_Witness ==
    /\ lastEvent.kind = "message"
    /\ sent = << Send(LastConn, RoomFull) >>
    /\ currentRoom[LastConn] \in DOMAIN rooms
    /\ SetHas(rooms[currentRoom[LastConn]], LastConn)
    /\ currentRoom[LastConn] # sanitiseRoomId(lastEvent.raw.json.roomId)

C9_Keeps == \A c \in Conns : wsPeerId[c] # Undefined => wsPeerId'[c] = wsPeerId[c]

\* C9: once assigned, a connection's peer identifier never changes.
C9_AssignedOnce == [][C9_Keeps]_vars

\* success with a non-empty list
C12_Success(r) == ~r.error /\ r.parses /\ r.isArray /\ r.servers # << >>

C12_Snapshot == cachedIceServers = << >> \/ cachedIceServers \in IceLists

C12_Latest ==
    LET e == lastEvent'
    IN  /\ cachedIceServers' =
               IF e.kind = "fetch" /\ C12_Success(e.response)
               THEN e.response.servers
               ELSE cachedIceServers
        /\ cachedIceServers # << >> => cachedIceServers' # << >>
        /\ e.kind = "message" /\ "ASSIGNED_PEER_ID" \in Types(sent') =>
               /\ sent'[1].msg.iceServers = cachedIceServers
               /\ fetches' = fetches

\* C12: the cache is empty at start and changes only when a fetch ends in
\* success with a non-empty list, to that list: a failed fetch (network error,
\* unparseable, not a list, empty list) leaves it as it was and it never goes
\* from non-empty to empty; a join replies with the cache as it is, also
\* while a request is in flight, and waits for none.
C12_CacheKeepsLastGood == []C12_Snapshot /\ [][C12_Latest]_vars

\* a request has just failed with an empty list while the cache holds an
\* earlier list and another request is still in flight
C12_Witness ==
    /\ lastEvent.kind = "fetch"
    /\ lastEvent.response = Response(FALSE, TRUE, TRUE, << >>)
    /\ cachedIceServers # << >>
    /\ fetches.inFlight > 0

\* the room a JOIN_ROOM frame asks for can take the joiner
C15_Succeeds(msg) ==
    LET r == sanitiseRoomId(msg.roomId)
    IN  /\ msg.type = "JOIN_ROOM"
        /\ r # << >>
        /\ r \in DOMAIN rooms => Cardinality(Members(rooms[r])) < MAX_ROOM_SIZE

C15_Replies ==
    LET e == lastEvent'
        n == Len(sent')
    IN  IF Dispatched(e) /\ C15_Succeeds(e.raw.json)
        THEN LET r == sanitiseRoomId(e.raw.json.roomId)
                 id == wsPeerId'[e.conn]
                 others == { p \in Members(rooms'[r]) :
                                p # e.conn /\ readyState[p] = OPEN }
             IN  /\ id # Undefined
                 /\ n = 1 + Cardinality(others)
                 /\ sent'[1] = Send(e.conn, [type |-> "ASSIGNED_PEER_ID", peerId |-> id,
                                              iceServers |-> cachedIceServers])
                 /\ \A i \in 2 .. n : sent'[i].msg = [type |-> "PEER_JOINED", peerId |-> id]
                 /\ { sent'[i].to : i \in 2 .. n } = others
        ELSE Types(sent') \cap {"ASSIGNED_PEER_ID", "PEER_JOINED"} = {}

\* C15: a successful JOIN_ROOM sends, first, one ASSIGNED_PEER_ID with the
\* joiner's new identifier and the current credential cache to the joiner, and
\* then one PEER_JOINED with that identifier to each other writable member of
\* the room; nothing else is sent, and no other handler sends either frame.
C15_JoinReplies == [][C15_Replies]_vars

\* a join into a room of three, one of them no longer writable, while the
\* cache holds a fetched list
C15_Witness ==
    /\ lastEvent.kind = "message"
    /\ Len(sent) = 2
    /\ sent[1].msg.type = "ASSIGNED_PEER_ID"
    /\ sent[1].msg.iceServers # << >>
    /\ sent[2].msg.type = "PEER_JOINED"
    /\ \E p \in Members(rooms[currentRoom[LastConn]]) : readyState[p] = CLOSING

(***************************************************************************)
(*                              The client                                 *)
(*                                                                         *)
(* The handlers of signaling.js are async functions: each runs until its   *)
(* next `await` of an RTCPeerConnection operation and resumes when that    *)
(* operation settles.  RTCPeerConnection queues its operations (W3C        *)
(* WebRTC, "operations chain"): an entry of `chain` is a pending operation *)
(* with the continuation of the handler that awaits it.                    *)
(***************************************************************************)
\* pending connections the model lets one page create
MaxPcs == 2
\* ICE_CANDIDATE frames the connections of one page are handed
MaxCands == 2
\* connectSignaling calls of one page
MaxConnects == 1
\* operations pending on one RTCPeerConnection
MaxPending == 2
\* payloads the application sends on one data channel
MaxPayloads == 1
\* signaling sockets one page opens in SpecSession
MaxSockets == 2

PeerIds == {1, 2}
Candidates == {"cand-1", "cand-2"}

\* opts.roomId of every page
RoomId == Str(<<"a", "b", "c">>)

\* frames the relay sends to a page
ServerMsg(type, peerId, sdp, candidate, iceServers) ==
    [type |-> type, peerId |-> peerId, sdp |-> sdp, candidate |-> candidate,
     iceServers |-> iceServers]

ServerFrames ==
    { Frame(ServerMsg("ASSIGNED_PEER_ID", 1, Absent, Absent, l)) :
          l \in {<< >>, <<"turn:1">>} }
    \cup { Frame(ServerMsg("PEER_JOINED", p, Absent, Absent, << >>)) : p \in PeerIds }
    \cup { Frame(ServerMsg("OFFER", p, "sdp-o", Absent, << >>)) : p \in PeerIds }
    \cup { Frame(ServerMsg("ANSWER", p, "sdp-a", Absent, << >>)) : p \in PeerIds }
    \cup { Frame(ServerMsg("ICE_CANDIDATE", p, Absent, c, << >>)) :
              p \in PeerIds, c \in Candidates \cup {Absent} }
    \cup { Frame(ServerMsg("ROOM_FULL", Undefined, Absent, Absent, << >>)),
           [malformed |-> TRUE, json |-> ServerMsg(Absent, Undefined, Absent, Absent, << >>)] }

Range(m) == { m[k] : k \in DOMAIN m }

\* the name of the i-th RTCPeerConnection of page g; what it creates carries it
Tag(g, i) == ToString(g) \o "." \o ToString(i)
OfferSdp(tag) == "offer/" \o tag
AnswerSdp(tag) == "answer/" \o tag
CandidateOf(tag) == "cand/" \o tag

\* new RTCPeerConnection({ iceServers });  `socket` remembers the signaling
\* socket the page had when the object was made
NewPc(tag, peerId, iceServers, socket) ==
    [tag |-> tag, peer |-> peerId, iceServers |-> iceServers,
     signalingState |-> "stable", remoteDescription |-> FALSE,
     localSdp |-> Absent, remoteSdp |-> Absent, answers |-> 0,
     chain |-> << >>, candidates |-> << >>, received |-> << >>,
     onicecandidate |-> FALSE, ondatachannel |-> FALSE,
     emitted |-> FALSE, announced |-> FALSE, socket |-> socket]

\* an RTCDataChannel after _setupChannel: the channel of connection `pc`;
\* `log` is what this side has sent on it
NewChannel(peerId, isHostSide, pc, socket) ==
    [peer |-> peerId, isHostSide |-> isHostSide, readyState |-> "connecting",
     onclose |-> TRUE, pc |-> pc, log |-> << >>, socket |-> socket]

\* a pending operation: what it is, its argument, and what awaits it
Op(op, arg, cont) == [op |-> op, arg |-> arg, cont |-> cont]

Description(type, sdp) == [type |-> type, sdp |-> sdp]

(***************************************************************************)
(* The transport (RTCPeerConnection), as W3C WebRTC defines it             *)
(***************************************************************************)
\* whether the operation succeeds on a connection in state p
Succeeds(p, o) ==
    CASE o.op = "createOffer" -> TRUE
      [] o.op = "createAnswer" -> p.signalingState = "have-remote-offer"
      [] o.op = "setLocalDescription" ->
            IF o.arg.type = "offer"
            THEN p.signalingState \in {"stable", "have-local-offer"}
            ELSE p.signalingState = "have-remote-offer"
      [] o.op = "setRemoteDescription" ->
            IF o.arg.type = "offer"
            THEN p.signalingState \in {"stable", "have-remote-offer"}
            ELSE p.signalingState = "have-local-offer"
      [] o.op = "addIceCandidate" -> p.remoteDescription

\* the connection after the successful operation
Applied(p, o) ==
    CASE o.op = "setLocalDescription" ->
            [p EXCEPT !.signalingState =
                         IF o.arg.type = "offer" THEN "have-local-offer" ELSE "stable",
                      !.localSdp = o.arg.sdp]
      [] o.op = "setRemoteDescription" ->
            [p EXCEPT !.signalingState =
                         IF o.arg.type = "offer" THEN "have-remote-offer" ELSE "stable",
                      !.remoteDescription = TRUE,
                      !.remoteSdp = o.arg.sdp,
                      !.answers = IF o.arg.type = "answer" THEN @ + 1 ELSE @]
      [] o.op = "addIceCandidate" ->
            [p EXCEPT !.candidates = Append(@, o.arg)]
      [] OTHER -> p

\* both descriptions are in place and the connection is not closed
Negotiated(p) ==
    /\ p.signalingState = "stable"
    /\ p.remoteDescription
    /\ p.localSdp # Absent

(***************************************************************************)
(* resetSignaling()                                                        *)
(***************************************************************************)
\* slip: clear() leaves the map as it is
MapClearNothing(m) == m

\* Map.prototype.clear
MapClear(m) == EmptyMap

\* ch.onclose = null; ch.close()  for every channel of the map
ChannelsAfterReset(g) ==
    [i \in DOMAIN channels[g] |->
        IF i \in Range(dataChannels[g])
        THEN [channels[g][i] EXCEPT
                 !.onclose = FALSE,
                 !.readyState = IF @ = "closed" THEN "closed" ELSE "closing"]
        ELSE channels[g][i]]

\* pc.onicecandidate = null; pc.close()  for every connection of the map;
\* the pending operations of a closed connection never settle
PcsAfterReset(g) ==
    [i \in DOMAIN pcs[g] |->
        IF i \in Range(peerConnections[g])
        THEN [pcs[g][i] EXCEPT !.onicecandidate = FALSE, !.signalingState = "closed",
                               !.chain = << >>]
        ELSE pcs[g][i]]

\* _signalingSocket.close() when OPEN or CONNECTING
SocketsAfterReset(g) ==
    IF signalingSocket[g] # NoSocket
    THEN [webSockets[g] EXCEPT ![signalingSocket[g]] =
             IF @ \in {"OPEN", "CONNECTING"} THEN "CLOSED" ELSE @]
    ELSE webSockets[g]

ResetSignaling(g) ==
    /\ channels' = [channels EXCEPT ![g] = ChannelsAfterReset(g)]
    /\ dataChannels' = [dataChannels EXCEPT ![g] = MapClear(@)]
    /\ pcs' = [pcs EXCEPT ![g] = PcsAfterReset(g)]
    /\ peerConnections' = [peerConnections EXCEPT ![g] = MapClear(@)]
    /\ webSockets' = [webSockets EXCEPT ![g] = SocketsAfterReset(g)]
    /\ signalingSocket' = [signalingSocket EXCEPT ![g] = NoSocket]
    /\ myPeerId' = [myPeerId EXCEPT ![g] = Undefined]
    /\ outbox' = << >>
    /\ uncaught' = FALSE
    /\ clientEvent' = [kind |-> "reset", page |-> g,
                       again |-> clientEvent.kind = "reset" /\ clientEvent.page = g]
    /\ UNCHANGED << role, resolvedIceServers >>
    /\ UNCHANGED relayVars

(***************************************************************************)
(* connectSignaling(opts)                                                  *)
(***************************************************************************)
ConnectSignaling(g, r) ==
    /\ channels' = [channels EXCEPT ![g] = ChannelsAfterReset(g)]
    /\ dataChannels' = [dataChannels EXCEPT ![g] = MapClear(@)]
    /\ pcs' = [pcs EXCEPT ![g] = PcsAfterReset(g)]
    /\ peerConnections' = [peerConnections EXCEPT ![g] = MapClear(@)]
    /\ webSockets' = [webSockets EXCEPT ![g] = Append(SocketsAfterReset(g), "CONNECTING")]
    /\ signalingSocket' = [signalingSocket EXCEPT ![g] = Len(webSockets[g]) + 1]
    /\ myPeerId' = [myPeerId EXCEPT ![g] = Undefined]
    /\ role' = [role EXCEPT ![g] = r]
    /\ outbox' = << >>
    /\ uncaught' = FALSE
    /\ clientEvent' = [kind |-> "connect", page |-> g]
    /\ UNCHANGED resolvedIceServers
    /\ UNCHANGED relayVars

(***************************************************************************)
(* closeAll()                                                              *)
(***************************************************************************)
\* ch.close()  for every channel of the map; its callbacks stay registered
ChannelsAfterCloseAll(g) ==
    [i \in DOMAIN channels[g] |->
        IF i \in Range(dataChannels[g])
        THEN [channels[g][i] EXCEPT
                 !.readyState = IF @ = "closed" THEN "closed" ELSE "closing"]
        ELSE channels[g][i]]

\* pc.close()  for every connection of the map
PcsAfterCloseAll(g) ==
    [i \in DOMAIN pcs[g] |->
        IF i \in Range(peerConnections[g])
        THEN [pcs[g][i] EXCEPT !.signalingState = "closed", !.chain = << >>]
        ELSE pcs[g][i]]

\* _signalingSocket && _signalingSocket.readyState < 2: close()
SocketsAfterCloseAll(g) == SocketsAfterReset(g)

CloseAll(g) ==
    /\ channels' = [channels EXCEPT ![g] = ChannelsAfterCloseAll(g)]
    /\ dataChannels' = [dataChannels EXCEPT ![g] = MapClear(@)]
    /\ pcs' = [pcs EXCEPT ![g] = PcsAfterCloseAll(g)]
    /\ peerConnections' = [peerConnections EXCEPT ![g] = MapClear(@)]
    /\ webSockets' = [webSockets EXCEPT ![g] = SocketsAfterCloseAll(g)]
    /\ signalingSocket' = [signalingSocket EXCEPT ![g] = NoSocket]
    /\ myPeerId' = [myPeerId EXCEPT ![g] = Undefined]
    /\ outbox' = << >>
    /\ uncaught' = FALSE
    /\ clientEvent' = [kind |-> "closeAll", page |-> g]
    /\ UNCHANGED << role, resolvedIceServers >>
    /\ UNCHANGED relayVars

(***************************************************************************)
(* Events of the signaling socket                                          *)
(***************************************************************************)
\* the 'open' listener: send JOIN_ROOM
SocketOpen(g) ==
    /\ signalingSocket[g] # NoSocket
    /\ webSockets[g][signalingSocket[g]] = "CONNECTING"
    /\ webSockets' = [webSockets EXCEPT ![g][signalingSocket[g]] = "OPEN"]
    /\ outbox' = << [type |-> "JOIN_ROOM", roomId |-> RoomId, role |-> role[g]] >>
    /\ uncaught' = FALSE
    /\ clientEvent' = [kind |-> "open", page |-> g]
    /\ UNCHANGED << role, signalingSocket, myPeerId, resolvedIceServers,
                    peerConnections, dataChannels, pcs, channels >>
    /\ UNCHANGED relayVars

\* the relay's end of the socket goes away; signaling.js has no 'close' listener
SocketLost(g) ==
    /\ signalingSocket[g] # NoSocket
    /\ webSockets[g][signalingSocket[g]] = "OPEN"
    /\ webSockets' = [webSockets EXCEPT ![g][signalingSocket[g]] = "CLOSED"]
    /\ outbox' = << >>
    /\ uncaught' = FALSE
    /\ clientEvent' = [kind |-> "lost", page |-> g]
    /\ UNCHANGED << role, signalingSocket, myPeerId, resolvedIceServers,
                    peerConnections, dataChannels, pcs, channels >>
    /\ UNCHANGED relayVars

(***************************************************************************)
(* _sigSend(obj): _signalingSocket.send(JSON.stringify(obj))               *)
(***************************************************************************)
\* null socket: TypeError; CONNECTING: InvalidStateError
SigSendThrows(g) ==
    \/ signalingSocket[g] = NoSocket
    \/ webSockets[g][signalingSocket[g]] = "CONNECTING"

\* frames that reach the wire: a CLOSING or CLOSED socket discards them
SigSent(g, obj) ==
    IF ~SigSendThrows(g) /\ webSockets[g][signalingSocket[g]] = "OPEN"
    THEN << obj >>
    ELSE << >>

Enqueue(g, i, o) == [pcs EXCEPT ![g][i].chain = Append(@, o)]

(***************************************************************************)
(* _hostCreateOffer, up to `await pc.createOffer()`                        *)
(***************************************************************************)
HostCreateOffer(g, peerId) ==
    LET i == Len(pcs[g]) + 1
        j == Len(channels[g]) + 1
        pc == [NewPc(Tag(g, i), peerId, resolvedIceServers[g], signalingSocket[g]) EXCEPT
                  !.onicecandidate = TRUE,
                  !.chain = << Op("createOffer", Description("offer", OfferSdp(Tag(g, i))),
                                  "host:setLocal") >>]
    IN  /\ pcs' = [pcs EXCEPT ![g] = Append(@, pc)]
        /\ peerConnections' = [peerConnections EXCEPT ![g] = MapSet(@, peerId, i)]
        /\ channels' = [channels EXCEPT ![g] =
                           Append(@, NewChannel(peerId, TRUE, i, signalingSocket[g]))]
        /\ dataChannels' = [dataChannels EXCEPT ![g] = MapSet(@, peerId, j)]

(***************************************************************************)
(* _clientHandleOffer, up to `await pc.setRemoteDescription(...)`          *)
(***************************************************************************)
ClientHandleOffer(g, hostPeerId, sdp) ==
    LET i == Len(pcs[g]) + 1
        pc == [NewPc(Tag(g, i), hostPeerId, resolvedIceServers[g], signalingSocket[g]) EXCEPT
                  !.onicecandidate = TRUE,
                  !.ondatachannel = TRUE,
                  !.chain = << Op("setRemoteDescription", Description("offer", sdp),
                                  "client:createAnswer") >>]
    IN  /\ pcs' = [pcs EXCEPT ![g] = Append(@, pc)]
        /\ peerConnections' = [peerConnections EXCEPT ![g] = MapSet(@, hostPeerId, i)]
        /\ UNCHANGED << channels, dataChannels >>

(***************************************************************************)
(* the 'message' listener of the signaling socket, up to its first await   *)
(***************************************************************************)
\* case 'ICE_CANDIDATE': `pc && msg.candidate`
TakesCandidate(g, msg) ==
    MapHas(peerConnections[g], msg.peerId) /\ msg.candidate # Absent

\* the candidate is handed to pc.addIceCandidate inside try/catch
HandleCandidate(g, msg) ==
    LET i == peerConnections[g][msg.peerId]
    IN  [pcs EXCEPT ![g][i].chain = Append(@, Op("addIceCandidate", msg.candidate, "end")),
                    ![g][i].received = Append(@, msg.candidate)]

\* slip: the ANSWER case tests pc.signalingState against 'stable'
TakesAnswerWhenStable(g, msg) ==
    /\ MapHas(peerConnections[g], msg.peerId)
    /\ pcs[g][peerConnections[g][msg.peerId]].signalingState = "stable"

\* slip: the ANSWER case lacks the test of pc.signalingState
TakesAnswerAnyState(g, msg) ==
    /\ MapHas(peerConnections[g], msg.peerId)
    /\ pcs[g][peerConnections[g][msg.peerId]].signalingState # "closed"

\* case 'ANSWER': `pc && pc.signalingState === 'have-local-offer'`
TakesAnswer(g, msg) ==
    /\ MapHas(peerConnections[g], msg.peerId)
    /\ pcs[g][peerConnections[g][msg.peerId]].signalingState = "have-local-offer"

OnSignal(g, raw) ==
    LET msg == raw.json
    IN  /\ signalingSocket[g] # NoSocket
        /\ webSockets[g][signalingSocket[g]] = "OPEN"
        /\ outbox' = << >>
        /\ uncaught' = FALSE
        /\ clientEvent' = [kind |-> "message", page |-> g, raw |-> raw]
        /\ UNCHANGED << role, signalingSocket, webSockets >>
        /\ UNCHANGED relayVars
        /\ IF raw.malformed
           THEN UNCHANGED << myPeerId, resolvedIceServers, peerConnections,
                             dataChannels, pcs, channels >>
           ELSE CASE msg.type = "ASSIGNED_PEER_ID" ->
                       /\ myPeerId' = [myPeerId EXCEPT ![g] = msg.peerId]
                       /\ resolvedIceServers' =
                             [resolvedIceServers EXCEPT ![g] =
                                 IF Len(msg.iceServers) > 0 THEN msg.iceServers ELSE @]
                       /\ UNCHANGED << peerConnections, dataChannels, pcs, channels >>
                  [] msg.type = "PEER_JOINED" /\ role[g] = "host" ->
                       /\ HostCreateOffer(g, msg.peerId)
                       /\ UNCHANGED << myPeerId, resolvedIceServers >>
                  [] msg.type = "OFFER" /\ role[g] = "client" ->
                       /\ ClientHandleOffer(g, msg.peerId, msg.sdp)
                       /\ UNCHANGED << myPeerId, resolvedIceServers >>
                  [] msg.type = "ANSWER" /\ TakesAnswer(g, msg) ->
                       /\ pcs' = Enqueue(g, peerConnections[g][msg.peerId],
                                         Op("setRemoteDescription",
                                            Description("answer", msg.sdp), "end"))
                       /\ UNCHANGED << myPeerId, resolvedIceServers, peerConnections,
                                       dataChannels, channels >>
                  [] msg.type = "ICE_CANDIDATE" /\ TakesCandidate(g, msg) ->
                       /\ pcs' = HandleCandidate(g, msg)
                       /\ UNCHANGED << myPeerId, resolvedIceServers, peerConnections,
                                       dataChannels, channels >>
                  [] OTHER ->
                       UNCHANGED << myPeerId, resolvedIceServers, peerConnections,
                                    dataChannels, pcs, channels >>

(***************************************************************************)
(* The oldest pending operation of connection i settles and the handler    *)
(* that awaits it runs on to its next await, or to its end.                *)
(***************************************************************************)
\* the operation the continuation awaits next, if any
NextOp(p, cont) ==
    CASE cont = "host:setLocal" ->
            << Op("setLocalDescription", Description("offer", OfferSdp(p.tag)),
                  "host:sendOffer") >>
      [] cont = "client:createAnswer" ->
            << Op("createAnswer", Description("answer", AnswerSdp(p.tag)),
                  "client:setLocal") >>
      [] cont = "client:setLocal" ->
            << Op("setLocalDescription", Description("answer", AnswerSdp(p.tag)),
                  "client:sendAnswer") >>
      [] OTHER -> << >>

\* the frame the continuation hands to _sigSend, if any
Sends(p, cont) ==
    CASE cont = "host:sendOffer" ->
            << [type |-> "OFFER", peerId |-> p.peer, sdp |-> p.localSdp] >>
      [] cont = "client:sendAnswer" ->
            << [type |-> "ANSWER", peerId |-> p.peer, sdp |-> p.localSdp] >>
      [] OTHER -> << >>

Settle(g, i) ==
    LET p == pcs[g][i]
        o == Head(p.chain)
        ok == Succeeds(p, o)
        p1 == [(IF ok THEN Applied(p, o) ELSE p) EXCEPT !.chain = Tail(p.chain)]
        more == IF ok THEN NextOp(p, o.cont) ELSE << >>
        frames == IF ok THEN Sends(p1, o.cont) ELSE << >>
    IN  /\ i \in DOMAIN pcs[g]
        /\ p.chain # << >>
        /\ pcs' = [pcs EXCEPT ![g][i] = [p1 EXCEPT !.chain = @ \o more]]
        /\ outbox' = IF frames # << >> THEN SigSent(g, frames[1]) ELSE << >>
        /\ uncaught' = \/ ~ok /\ o.op # "addIceCandidate"
                       \/ frames # << >> /\ SigSendThrows(g)
        /\ clientEvent' = [kind |-> "settle", page |-> g, pc |-> i, op |-> o.op, ok |-> ok]
        /\ UNCHANGED << role, signalingSocket, webSockets, myPeerId, resolvedIceServers,
                        peerConnections, dataChannels, channels >>
        /\ UNCHANGED relayVars

(***************************************************************************)
(* pc.onicecandidate: the connection has found a local candidate           *)
(***************************************************************************)
OnIceCandidate(g, i) ==
    LET p == pcs[g][i]
        frame == [type |-> "ICE_CANDIDATE", peerId |-> p.peer,
                  candidate |-> CandidateOf(p.tag)]
    IN  /\ i \in DOMAIN pcs[g]
        /\ p.signalingState # "closed" /\ p.localSdp # Absent /\ ~p.emitted
        /\ pcs' = [pcs EXCEPT ![g][i].emitted = TRUE]
        /\ outbox' = IF p.onicecandidate THEN SigSent(g, frame) ELSE << >>
        /\ uncaught' = (p.onicecandidate /\ SigSendThrows(g))
        /\ clientEvent' = [kind |-> "icecandidate", page |-> g, pc |-> i,
                           callback |-> p.onicecandidate]
        /\ UNCHANGED << role, signalingSocket, webSockets, myPeerId, resolvedIceServers,
                        peerConnections, dataChannels, channels >>
        /\ UNCHANGED relayVars

(***************************************************************************)
(* Data channels.  _setupChannel registers the channel in dataChannels and *)
(* sets its onopen, onclose, onmessage and onerror callbacks.              *)
(***************************************************************************)
Hello == [type |-> "CLIENT_HELLO"]
Payload == [type |-> "APP"]

\* slip: onopen lacks `if (!isHostSide)`
OnOpenSendsAlways(isHostSide) == << Hello >>

\* channel.onopen: what the callback sends on the channel
OnOpenSends(isHostSide) == IF isHostSide THEN << >> ELSE << Hello >>

\* the 'open' event of the channel the offering side created
ChannelOpen(g, j) ==
    LET ch == channels[g][j]
    IN  /\ j \in DOMAIN channels[g]
        /\ ch.isHostSide /\ ch.readyState = "connecting"
        /\ Negotiated(pcs[g][ch.pc])
        /\ channels' = [channels EXCEPT ![g][j] =
                           [ch EXCEPT !.readyState = "open",
                                      !.log = @ \o OnOpenSends(ch.isHostSide)]]
        /\ outbox' = << >>
        /\ uncaught' = FALSE
        /\ clientEvent' = [kind |-> "channel open", page |-> g, channel |-> j]
        /\ UNCHANGED << role, signalingSocket, webSockets, myPeerId, resolvedIceServers,
                        peerConnections, dataChannels, pcs >>
        /\ UNCHANGED relayVars

\* pc.ondatachannel on the answering side: _setupChannel(e.channel, ...), and
\* in the same task the 'open' event of that channel
OnDataChannel(g, i) ==
    LET p == pcs[g][i]
        j == Len(channels[g]) + 1
        ch == [NewChannel(p.peer, FALSE, i, p.socket) EXCEPT
                  !.readyState = "open", !.log = OnOpenSends(FALSE)]
    IN  /\ i \in DOMAIN pcs[g]
        /\ p.ondatachannel /\ ~p.announced /\ Negotiated(p)
        /\ pcs' = [pcs EXCEPT ![g][i].announced = TRUE]
        /\ channels' = [channels EXCEPT ![g] = Append(@, ch)]
        /\ dataChannels' = [dataChannels EXCEPT ![g] = MapSet(@, p.peer, j)]
        /\ outbox' = << >>
        /\ uncaught' = FALSE
        /\ clientEvent' = [kind |-> "datachannel", page |-> g, channel |-> j]
        /\ UNCHANGED << role, signalingSocket, webSockets, myPeerId, resolvedIceServers,
                        peerConnections >>
        /\ UNCHANGED relayVars

\* the 'close' event of a channel: the far side or the transport closed it,
\* or this side called close() before.  channel.onclose, when still set:
\* dataChannels.delete(peerId); peerConnections.delete(peerId); onDisconnect
ChannelClosed(g, j) ==
    LET ch == channels[g][j]
    IN  /\ j \in DOMAIN channels[g]
        /\ ch.readyState # "closed"
        /\ channels' = [channels EXCEPT ![g][j].readyState = "closed"]
        /\ dataChannels' = [dataChannels EXCEPT ![g] =
                               IF ch.onclose THEN MapDelete(@, ch.peer) ELSE @]
        /\ peerConnections' = [peerConnections EXCEPT ![g] =
                                  IF ch.onclose THEN MapDelete(@, ch.peer) ELSE @]
        /\ outbox' = << >>
        /\ uncaught' = FALSE
        /\ clientEvent' = [kind |-> "channel close", page |-> g, channel |-> j,
                           callback |-> ch.onclose,
                           released |-> ch.readyState = "closing"]
        /\ UNCHANGED << role, signalingSocket, webSockets, myPeerId, resolvedIceServers,
                        pcs >>
        /\ UNCHANGED relayVars

\* ch.send(msgStr) on the channels of `js` that are open
ChannelsAfterSend(g, js) ==
    [j \in DOMAIN channels[g] |->
        IF j \in js /\ channels[g][j].readyState = "open"
        THEN [channels[g][j] EXCEPT !.log = Append(@, Payload)]
        ELSE channels[g][j]]

AppSend(g, js, call) ==
    /\ channels' = [channels EXCEPT ![g] = ChannelsAfterSend(g, js)]
    /\ outbox' = << >>
    /\ uncaught' = FALSE
    /\ clientEvent' = [kind |-> call, page |-> g]
    /\ UNCHANGED << role, signalingSocket, webSockets, myPeerId, resolvedIceServers,
                    peerConnections, dataChannels, pcs >>
    /\ UNCHANGED relayVars

\* broadcast(msgStr)
Broadcast(g) == AppSend(g, Range(dataChannels[g]), "broadcast")

\* sendToPeer(peerId, msgStr)
SendToPeer(g, peerId) ==
    AppSend(g, IF MapHas(dataChannels[g], peerId) THEN {dataChannels[g][peerId]} ELSE {},
            "sendToPeer")

\* sendToHost(msgStr): the first open channel in the Map's order; the model
\* has the call only while the Map holds at most one channel
SendToHost(g) ==
    /\ Cardinality(DOMAIN dataChannels[g]) <= 1
    /\ AppSend(g, Range(dataChannels[g]), "sendToHost")

\* hasOpenChannel()
hasOpenChannel(g) ==
    \E k \in DOMAIN dataChannels[g] : channels[g][dataChannels[g][k]].readyState = "open"

(***************************************************************************)
(* SpecClient: one page connects with either role and receives any frames  *)
(* from the relay, in any order, while its transports make progress.       *)
(***************************************************************************)
ThePage == 1

MakesPc(raw) == ~raw.malformed /\ raw.json.type \in {"PEER_JOINED", "OFFER"}

RECURSIVE Handed(_, _)
Handed(g, n) == IF n = 0 THEN 0 ELSE Len(pcs[g][n].received) + Handed(g, n - 1)

CandsLeft(g, raw) ==
    ~raw.malformed /\ raw.json.type = "ICE_CANDIDATE" /\ TakesCandidate(g, raw.json) =>
        Handed(g, Len(pcs[g])) < MaxCands

PendingLeft(g, raw) ==
    ~raw.malformed /\ MapHas(peerConnections[g], raw.json.peerId) =>
        Len(pcs[g][peerConnections[g][raw.json.peerId]].chain) < MaxPending

NextClient ==
    \/ \E r \in {"host", "client"} :
          /\ Len(webSockets[ThePage]) < MaxConnects
          /\ ConnectSignaling(ThePage, r)
          /\ NoNet
    \/ ResetSignaling(ThePage) /\ NoNet
    \/ SocketOpen(ThePage) /\ NoNet
    \/ SocketLost(ThePage) /\ NoNet
    \/ \E raw \in ServerFrames :
          /\ MakesPc(raw) => Len(pcs[ThePage]) < MaxPcs
          /\ CandsLeft(ThePage, raw)
          /\ PendingLeft(ThePage, raw)
          /\ OnSignal(ThePage, raw)
          /\ NoNet
    \/ \E i \in 1 .. MaxPcs : Settle(ThePage, i) /\ NoNet

SpecClient == Init /\ [][NextClient]_vars

(***************************************************************************)
(* SpecSession: the application of one page calls connectSignaling,        *)
(* resetSignaling and closeAll at any time while the relay announces a     *)
(* peer, offers and answers, and the transports and channels of the page   *)
(* make progress or are closed from the far side.                          *)
(***************************************************************************)
SessionFrames ==
    { Frame(ServerMsg("ASSIGNED_PEER_ID", 2, Absent, Absent, << >>)),
      Frame(ServerMsg("PEER_JOINED", 1, Absent, Absent, << >>)),
      Frame(ServerMsg("OFFER", 1, "sdp-o", Absent, << >>)),
      Frame(ServerMsg("ANSWER", 1, "sdp-a", Absent, << >>)) }

NextSession ==
    \/ \E r \in {"host", "client"} :
          /\ Len(webSockets[ThePage]) < MaxSockets
          /\ ConnectSignaling(ThePage, r)
          /\ NoNet
    \/ ResetSignaling(ThePage) /\ NoNet
    \/ CloseAll(ThePage) /\ NoNet
    \/ SocketOpen(ThePage) /\ NoNet
    \/ \E raw \in SessionFrames :
          /\ MakesPc(raw) => Len(pcs[ThePage]) < MaxPcs
          /\ PendingLeft(ThePage, raw)
          /\ OnSignal(ThePage, raw)
          /\ NoNet
    \/ \E i \in 1 .. MaxPcs : Settle(ThePage, i) /\ NoNet
    \/ \E j \in 1 .. MaxPcs : ChannelOpen(ThePage, j) /\ NoNet
    \/ \E i \in 1 .. MaxPcs : OnDataChannel(ThePage, i) /\ NoNet
    \/ \E j \in 1 .. MaxPcs : ChannelClosed(ThePage, j) /\ NoNet

SpecSession == Init /\ [][NextSession]_vars

(***************************************************************************)
(* SpecHello: one page connects with either role, negotiates sessions with *)
(* peers 1 and 2, its channels open and close, and the application sends   *)
(* on them with broadcast, sendToPeer and sendToHost.                      *)
(***************************************************************************)
HelloFrames ==
    { Frame(ServerMsg(type, p, sdp, Absent, << >>)) :
        type \in {"PEER_JOINED", "OFFER", "ANSWER"}, p \in PeerIds, sdp \in {"sdp"} }

PayloadsLeft(g) ==
    \A j \in DOMAIN channels[g] : Len(channels[g][j].log) <= MaxPayloads

NextHello ==
    \/ \E r \in {"host", "client"} :
          /\ Len(webSockets[ThePage]) < MaxConnects
          /\ ConnectSignaling(ThePage, r)
          /\ NoNet
    \/ SocketOpen(ThePage) /\ NoNet
    \/ \E raw \in HelloFrames :
          /\ MakesPc(raw) => Len(pcs[ThePage]) < MaxPcs
          /\ PendingLeft(ThePage, raw)
          /\ OnSignal(ThePage, raw)
          /\ NoNet
    \/ \E i \in 1 .. MaxPcs : Settle(ThePage, i) /\ NoNet
    \/ \E j \in 1 .. MaxPcs : ChannelOpen(ThePage, j) /\ NoNet
    \/ \E i \in 1 .. MaxPcs : OnDataChannel(ThePage, i) /\ NoNet
    \/ \E j \in 1 .. MaxPcs : ChannelClosed(ThePage, j) /\ NoNet
    \/ PayloadsLeft(ThePage) /\ Broadcast(ThePage) /\ NoNet
    \/ \E p \in PeerIds : PayloadsLeft(ThePage) /\ SendToPeer(ThePage, p) /\ NoNet
    \/ PayloadsLeft(ThePage) /\ SendToHost(ThePage) /\ NoNet

SpecHello == Init /\ [][NextHello]_vars

(***************************************************************************)
(* Pages and relay together.  A page's signaling socket is served by one   *)
(* relay connection; frames travel in order in each direction and every    *)
(* handler, on either side, is one step.                                   *)
(***************************************************************************)
Field(obj, name, default) == IF name \in DOMAIN obj THEN obj[name] ELSE default

\* JSON.parse of a frame a page sent, as the relay reads it
ToRelay(obj) ==
    Frame(InMsg(obj.type, Field(obj, "roomId", NotAString), Field(obj, "peerId", Undefined),
                Field(obj, "sdp", Absent), Field(obj, "candidate", Absent)))

\* JSON.parse of a frame the relay sent, as a page reads it
ToPage(obj) ==
    Frame(ServerMsg(obj.type, Field(obj, "peerId", Undefined), Field(obj, "sdp", Absent),
                    Field(obj, "candidate", Absent), Field(obj, "iceServers", << >>)))

\* the frames of `frames` on page g's way to the relay
Sent(g, frames) == up[g] \o [n \in 1 .. Len(frames) |-> ToRelay(frames[n])]

\* the frames among the relay's sends that go to page g
Received(g, sends) ==
    LET mine == SelectSeq(sends, LAMBDA s : s.to = conn[g])
    IN  down[g] \o [n \in 1 .. Len(mine) |-> ToPage(mine[n].msg)]

\* the page calls connectSignaling(opts) with opts.role = r, once
NetConnect(g, r) ==
    /\ webSockets[g] = << >>
    /\ ConnectSignaling(g, r)
    /\ UNCHANGED netVars

\* the relay accepts the connection of page g's signaling socket
NetAccept(g) ==
    /\ signalingSocket[g] # NoSocket
    /\ webSockets[g][signalingSocket[g]] = "CONNECTING"
    /\ conn[g] = 0
    /\ \E c \in Conns : Accept(c) /\ conn' = [conn EXCEPT ![g] = c]
    /\ UNCHANGED << up, down >>

\* the page learns that its socket is open
NetOpen(g) ==
    /\ conn[g] # 0
    /\ SocketOpen(g)
    /\ up' = [up EXCEPT ![g] = Sent(g, outbox')]
    /\ UNCHANGED << conn, down >>

\* the relay handles the oldest frame of page g
NetRelay(g) ==
    /\ up[g] # << >>
    /\ \E dt \in Spaced : OnMessage(conn[g], dt, Head(up[g]))
    /\ up' = [up EXCEPT ![g] = Tail(@)]
    /\ down' = [h \in Pages |-> Received(h, sent')]
    /\ UNCHANGED conn

\* page g handles the oldest frame the relay sent it
NetSignal(g) ==
    /\ down[g] # << >>
    /\ OnSignal(g, Head(down[g]))
    /\ down' = [down EXCEPT ![g] = Tail(@)]
    /\ UNCHANGED << conn, up >>

NetSettle(g, i) ==
    /\ Settle(g, i)
    /\ up' = [up EXCEPT ![g] = Sent(g, outbox')]
    /\ UNCHANGED << conn, down >>

NetCandidate(g, i) ==
    /\ OnIceCandidate(g, i)
    /\ up' = [up EXCEPT ![g] = Sent(g, outbox')]
    /\ UNCHANGED << conn, down >>

\* two connections that hold each other's descriptions: the transports of
\* the offering page h and of the answering page g can reach each other
Paired(h, i, g, k) ==
    /\ Negotiated(pcs[h][i]) /\ Negotiated(pcs[g][k])
    /\ pcs[g][k].remoteSdp = pcs[h][i].localSdp
    /\ pcs[h][i].remoteSdp = pcs[g][k].localSdp

NetChannelOpen(h, j) ==
    /\ ChannelOpen(h, j)
    /\ \E g \in Pages \ {h} : \E k \in DOMAIN pcs[g] : Paired(h, channels[h][j].pc, g, k)
    /\ UNCHANGED netVars

NetDataChannel(g, k) ==
    /\ OnDataChannel(g, k)
    /\ \E h \in Pages \ {g} : \E i \in DOMAIN pcs[h] : Paired(h, i, g, k)
    /\ UNCHANGED netVars

\* page 1 is the host of the room; the others join after it as clients
Host == 1
RoleOf(g) == IF g = Host THEN "host" ELSE "client"
Joined(g) == conn[g] # 0 /\ currentRoom[conn[g]] # Null

\* the clients that connected before page g have their channel open
Settled(P, g) == \A h \in P : (Host < h /\ h < g) => hasOpenChannel(h)

\* the events of the pages of P and of the relay; the pages join in the
\* order of their numbers, a client connects to a room whose earlier
\* clients are in session, and the pages of E are those whose transports'
\* candidates are followed
NetStep(P, E) ==
    \/ \E g \in P : Settled(P, g) /\ NetConnect(g, RoleOf(g))
    \/ \E g \in P : NetAccept(g)
    \/ \E g \in P : (\A h \in P : h < g => Joined(h)) /\ NetOpen(g)
    \/ \E g \in P : NetRelay(g)
    \/ \E g \in P : NetSignal(g)
    \/ \E g \in P, i \in 1 .. MaxPcs : NetSettle(g, i)
    \/ \E g \in E, i \in 1 .. MaxPcs : NetCandidate(g, i)
    \/ \E g \in P, j \in 1 .. MaxPcs : NetChannelOpen(g, j)
    \/ \E g \in P, i \in 1 .. MaxPcs : NetDataChannel(g, i)

(***************************************************************************)
(* SpecPair: host A (page 1) and client B (page 2).  Every handler that    *)
(* has something to handle runs eventually: the event loops of the relay   *)
(* and of the pages, and the transports, make progress.                    *)
(***************************************************************************)
A == 1
B == 2

NextPair == NetStep({A, B}, {A, B})

SpecPair == Init /\ [][NextPair]_vars /\ WF_vars(NextPair)

(***************************************************************************)
(* SpecTrio: host (page 1) and two clients (pages 2 and 3) in one room;    *)
(* the candidates of the host's transports are followed.                   *)
(***************************************************************************)
NextTrio == NetStep(Pages, {Host})

SpecTrio == Init /\ [][NextTrio]_vars

(***************************************************************************)
(* Properties of the client                                                *)
(***************************************************************************)
\* C10: on every connection that has a remote description and no operation
\* pending, the candidates added to the transport are the candidates received
\* for it, in the order received, none dropped and none twice.
C10_CandidatesBuffered ==
    \A g \in Pages : \A i \in DOMAIN pcs[g] :
        LET p == pcs[g][i]
        IN  p.remoteDescription /\ p.chain = << >> /\ p.signalingState # "closed" =>
               p.candidates = p.received

\* what signaling.js keeps: its module state and the objects it made
ProgramState == << role, signalingSocket, webSockets, myPeerId, resolvedIceServers,
                  peerConnections, dataChannels, pcs, channels >>

C13_AfterReset ==
    LET e == clientEvent'
    IN  e.kind = "reset" =>
          /\ ~uncaught'
          /\ peerConnections'[e.page] = EmptyMap
          /\ dataChannels'[e.page] = EmptyMap
          /\ signalingSocket'[e.page] = NoSocket
          /\ myPeerId'[e.page] = Undefined
          /\ e.again => ProgramState' = ProgramState

\* C13: resetSignaling(), in whatever state it is called, throws nothing and
\* returns with both maps empty, _signalingSocket null and _myPeerId null; a
\* call that follows another call directly changes nothing.
C13_ResetIdempotent == [][C13_AfterReset]_vars

\* resetSignaling has run twice in a row after it closed a session and the
\* open signaling socket
C13_Witness ==
    /\ clientEvent.kind = "reset" /\ clientEvent.again
    /\ \E i \in DOMAIN pcs[ThePage] : pcs[ThePage][i].signalingState = "closed"
    /\ \E j \in DOMAIN channels[ThePage] : ~channels[ThePage][j].onclose
    /\ webSockets[ThePage] # << >>

\* the signaling sockets of page g that are connecting or open
C14_Active(g) ==
    { s \in DOMAIN webSockets[g] : webSockets[g][s] \in {"CONNECTING", "OPEN"} }

C14_OneSocket == \A g \in Pages : Cardinality(C14_Active(g)) <= 1

C14_SessionsCurrent ==
    \A g \in Pages :
        /\ \A k \in DOMAIN peerConnections[g] :
              pcs[g][peerConnections[g][k]].socket = signalingSocket[g]
        /\ \A k \in DOMAIN dataChannels[g] :
              channels[g][dataChannels[g][k]].socket = signalingSocket[g]

\* C14: a page has at most one signaling socket that is connecting or open,
\* and every connection and channel in peerConnections and dataChannels was
\* made under the socket _signalingSocket refers to (so the maps are empty
\* while it is null).
C14_OneSocketOneSessionSet == C14_OneSocket /\ C14_SessionsCurrent

\* the session an ANSWER or ICE_CANDIDATE frame is stamped for, if any
C17_Known(g, m) == m.peerId \in DOMAIN peerConnections[g]

C17_Expecting(g, m) ==
    /\ C17_Known(g, m)
    /\ pcs[g][peerConnections[g][m.peerId]].signalingState = "have-local-offer"

C17_Dropped ==
    LET e == clientEvent'
        m == e.raw.json
    IN  e.kind = "message" /\ ~e.raw.malformed =>
          /\ m.type = "ANSWER" /\ ~C17_Expecting(e.page, m) =>
                ProgramState' = ProgramState /\ ~uncaught'
          /\ m.type = "ICE_CANDIDATE" /\ ~C17_Known(e.page, m) =>
                ProgramState' = ProgramState /\ ~uncaught'
          /\ m.type = "ANSWER" /\ C17_Expecting(e.page, m) =>
                LET i == peerConnections[e.page][m.peerId]
                IN  /\ Len(pcs'[e.page][i].chain) = Len(pcs[e.page][i].chain) + 1
                    /\ \A k \in DOMAIN pcs[e.page] \ {i} :
                          pcs'[e.page][k] = pcs[e.page][k]

C17_AppliedWhenExpected ==
    \A g \in Pages : \A i \in DOMAIN pcs[g] :
        pcs'[g][i].answers > pcs[g][i].answers =>
            /\ pcs[g][i].signalingState = "have-local-offer"
            /\ pcs[g][i].answers = 0

C17_AtMostOne == \A g \in Pages : \A i \in DOMAIN pcs[g] : pcs[g][i].answers <= 1

C19_Quiet ==
    LET e == clientEvent'
    IN  e.kind = "channel close" /\ e.released => ~e.callback

\* C19: once resetSignaling or closeAll has begun to tear a session down
\* (its channel has been told to close), no callback of that session runs:
\* the channel's close event finds its onclose callback unregistered.
C19_NoCallbackAfterTeardown == [][C19_Quiet]_vars

\* how many of the payloads of `log` are the hello
C18_Hellos(log) == Cardinality({ n \in 1 .. Len(log) : log[n] = Hello })

\* C18: on a channel of the offering side no hello is ever sent; on a
\* channel of the answering side nothing is sent before the channel is open,
\* and from the moment it is open the first payload sent is the hello and no
\* later payload is.
C18_HelloOnce ==
    \A g \in Pages : \A j \in DOMAIN channels[g] :
        LET ch == channels[g][j]
        IN  /\ ch.isHostSide => C18_Hellos(ch.log) = 0
            /\ ch.readyState = "connecting" => ch.log = << >>
            /\ ~ch.isHostSide /\ ch.readyState # "connecting" =>
                   /\ ch.log # << >>
                   /\ ch.log[1] = Hello
                   /\ C18_Hellos(ch.log) = 1

\* the application has sent on the open channel of an answering side, after
\* the hello
C18_Witness ==
    /\ role[ThePage] = "client"
    /\ \E j \in DOMAIN channels[ThePage] :
          /\ ~channels[ThePage][j].isHostSide
          /\ channels[ThePage][j].log = << Hello, Payload >>

(***************************************************************************)
(* Properties of pages and relay together                                  *)
(***************************************************************************)
OpenOn(g, i) ==
    \E j \in DOMAIN channels[g] :
        channels[g][j].pc = i /\ channels[g][j].readyState = "open"

\* the session of A toward B and the session of B toward A hold each
\* other's descriptions, A has applied one ANSWER, and the data channel is
\* open on both sides
C11_Open ==
    \E i \in DOMAIN pcs[A], k \in DOMAIN pcs[B] :
        /\ pcs[A][i].peer = wsPeerId[conn[B]]
        /\ pcs[B][k].peer = wsPeerId[conn[A]]
        /\ pcs[B][k].remoteSdp = OfferSdp(pcs[A][i].tag)
        /\ pcs[A][i].remoteSdp = AnswerSdp(pcs[B][k].tag)
        /\ pcs[A][i].answers = 1
        /\ OpenOn(A, i) /\ OpenOn(B, k)
        /\ hasOpenChannel(A)

\* C11: with host A joining a room and then client B joining it, and relay,
\* pages and transports making progress, eventually A holds a session keyed
\* by B's identifier whose OFFER B received stamped with A's identifier, A
\* has applied B's ANSWER, the data channel is open on both sides and A's
\* hasOpenChannel() returns true -- and it stays so.
C11_EndToEnd == <>[]C11_Open

\* both sides are open and B's hello is on its way to A
C11_Witness ==
    /\ C11_Open
    /\ \E j \in DOMAIN channels[B] : channels[B][j].log = << Hello >>
    /\ conn[A] = 1 /\ conn[B] = 2

\* the page handled an OFFER as a client while its map had a session for the
\* identifier the OFFER is stamped with
C16_OfferForKnownPeer(g) ==
    LET e == clientEvent'
    IN  /\ e.kind = "message" /\ e.page = g /\ ~e.raw.malformed
        /\ e.raw.json.type = "OFFER"
        /\ role[g] = "client"
        /\ MapHas(peerConnections[g], e.raw.json.peerId)

C16_Kept(g) ==
    /\ Len(pcs'[g]) = Len(pcs[g])
    /\ peerConnections'[g] = peerConnections[g]

C16_OneSession ==
    \A g \in Pages : role[g] = "client" => Len(pcs[g]) <= 1

\* C16: a client holds exactly one session, toward the host, and an OFFER
\* stamped with the identifier of a peer that already has a session
\* allocates no transport and leaves the map as it is, also in a room of a
\* host and two clients.
C16_NoSecondTransport ==
    []C16_OneSession /\ [][\A g \in Pages : C16_OfferForKnownPeer(g) => C16_Kept(g)]_vars

Tags == { Tag(g, i) : g \in Pages, i \in 1 .. MaxPcs }

\* candidate c carries the username fragment of the remote description that
\* transport p holds (a transport refuses the others)
C20_Matches(p, c) ==
    \E tag \in Tags : c = CandidateOf(tag) /\ p.remoteSdp \in {OfferSdp(tag), AnswerSdp(tag)}

\* candidate c was emitted by a session that some page holds toward page g
C20_EmittedFor(g, c) ==
    \E h \in Pages \ {g} : \E i \in DOMAIN pcs[h] :
        c = CandidateOf(pcs[h][i].tag) /\ pcs[h][i].peer = myPeerId[g]

\* C20: a candidate that a transport has added was emitted by the session
\* the remote peer holds toward this page, never by a session toward a third
\* member of the room.
C20_CandidateOnlyForItsPeer ==
    \A g \in Pages : \A k \in DOMAIN pcs[g] : \A c \in Range(pcs[g][k].candidates) :
        C20_Matches(pcs[g][k], c) => C20_EmittedFor(g, c)

=============================================================================
